---- MODULE Spec2Model ----
(***************************************************************************)
(* Model of the hierarchical 2D transform of ebi-math (src/transform.go).  *)
(*                                                                         *)
(* Numbers.  The code computes in float64.  The model computes exactly:    *)
(* a number is a reduced fraction <<n, d>> with d > 0, so that the inverse *)
(* of a matrix with scale 2 exists exactly.  An angle is a whole number of *)
(* quarter turns (k stands for k * pi/2), for which sine and cosine are    *)
(* exactly 0, 1 or -1.  Scale components fed to the model are never zero:  *)
(* Matrix.Invert on a singular matrix is outside the model.                *)
(***************************************************************************)
EXTENDS Integers, Sequences, FiniteSets, TLC

\* ------------------------------------------------------------------ bounds
\* Number of operations the program performs after the scene is built.
MaxSteps == 2

\* The Transform objects of the scene: a root, a child and a grandchild at most.
Nodes == {1, 2, 3}
\* The place of a Transform value returned by Abs() or Rel().
SnapId == Cardinality(Nodes) + 1
\* The nil *Transform.
Nil == 0

\* ------------------------------------------------------- float64 arithmetic
AbsInt(n) == IF n < 0 THEN -n ELSE n

RECURSIVE GCD(_, _)
GCD(a, b) == IF b = 0 THEN a ELSE GCD(b, a % b)

\* The fraction n/d in lowest terms with a positive denominator.
Frac(n, d) ==
    LET g == GCD(AbsInt(n), AbsInt(d))
        s == IF d < 0 THEN -1 ELSE 1
    IN  <<(s * n) \div g, (s * d) \div g>>

\* The float64 with the whole value n.
F(n) == <<n, 1>>

\* Whole numbers need no reduction.
FAdd(x, y) ==
    IF x[2] = 1 /\ y[2] = 1 THEN <<x[1] + y[1], 1>>
    ELSE Frac(x[1] * y[2] + y[1] * x[2], x[2] * y[2])
FSub(x, y) ==
    IF x[2] = 1 /\ y[2] = 1 THEN <<x[1] - y[1], 1>>
    ELSE Frac(x[1] * y[2] - y[1] * x[2], x[2] * y[2])
FMul(x, y) ==
    IF x[2] = 1 /\ y[2] = 1 THEN <<x[1] * y[1], 1>>
    ELSE Frac(x[1] * y[1], x[2] * y[2])
FDiv(x, y) ==
    IF x[2] = 1 /\ y = <<1, 1>> THEN x
    ELSE Frac(x[1] * y[2], x[2] * y[1])
FNeg(x) == <<-x[1], x[2]>>

\* math.Cos and math.Sin of k quarter turns.
Cos(k) == F(CASE k % 4 = 0 -> 1 [] k % 4 = 2 -> -1 [] OTHER -> 0)
Sin(k) == F(CASE k % 4 = 1 -> 1 [] k % 4 = 3 -> -1 [] OTHER -> 0)

\* ------------------------------------------------------------------ Vector
V(x, y) == [X |-> x, Y |-> y]
VInt(x, y) == V(F(x), F(y))
V2(v) == V(v, v)

\* Vector.IsZero
IsZero(v) == v.X = F(0) /\ v.Y = F(0)

\* Vector.Add with a list of vectors.
RECURSIVE VecAdd(_, _)
VecAdd(v, others) ==
    IF others = <<>> THEN v
    ELSE VecAdd(V(FAdd(v.X, Head(others).X), FAdd(v.Y, Head(others).Y)), Tail(others))

\* ------------------------------------------------------------------ Matrix
\* Matrix is an affine map (x, y) -> (a*x + b*y + tx, c*x + d*y + ty).
\* Matrix{} is the identity.
Identity == [a |-> F(1), b |-> F(0), c |-> F(0), d |-> F(1), tx |-> F(0), ty |-> F(0)]

\* Matrix.Apply
MApply(m, x, y) ==
    <<FAdd(FAdd(FMul(m.a, x), FMul(m.b, y)), m.tx),
      FAdd(FAdd(FMul(m.c, x), FMul(m.d, y)), m.ty)>>

\* Vector.Apply
Apply(v, m) == LET r == MApply(m, v.X, v.Y) IN V(r[1], r[2])

\* Matrix.Scale: the map followed by a scaling.
MScale(m, x, y) ==
    [a |-> FMul(m.a, x), b |-> FMul(m.b, x), tx |-> FMul(m.tx, x),
     c |-> FMul(m.c, y), d |-> FMul(m.d, y), ty |-> FMul(m.ty, y)]

\* Matrix.Translate: the map followed by a translation.
MTranslate(m, x, y) == [m EXCEPT !.tx = FAdd(m.tx, x), !.ty = FAdd(m.ty, y)]

\* Matrix.Rotate: the map followed by a rotation of theta quarter turns.
MRotate(m, theta) ==
    IF theta = 0 THEN m
    ELSE LET cos == Cos(theta)
             sin == Sin(theta)
         IN  [a  |-> FSub(FMul(cos, m.a), FMul(sin, m.c)),
              b  |-> FSub(FMul(cos, m.b), FMul(sin, m.d)),
              tx |-> FSub(FMul(cos, m.tx), FMul(sin, m.ty)),
              c  |-> FAdd(FMul(sin, m.a), FMul(cos, m.c)),
              d  |-> FAdd(FMul(sin, m.b), FMul(cos, m.d)),
              ty |-> FAdd(FMul(sin, m.tx), FMul(cos, m.ty))]

\* Matrix.Concat: m followed by other (other * m).
MConcat(m, other) ==
    [a  |-> FAdd(FMul(other.a, m.a), FMul(other.b, m.c)),
     b  |-> FAdd(FMul(other.a, m.b), FMul(other.b, m.d)),
     tx |-> FAdd(FAdd(FMul(other.a, m.tx), FMul(other.b, m.ty)), other.tx),
     c  |-> FAdd(FMul(other.c, m.a), FMul(other.d, m.c)),
     d  |-> FAdd(FMul(other.c, m.b), FMul(other.d, m.d)),
     ty |-> FAdd(FAdd(FMul(other.c, m.tx), FMul(other.d, m.ty)), other.ty)]

Det(m) == FSub(FMul(m.a, m.d), FMul(m.b, m.c))

\* Matrix.Invert, for a matrix whose determinant is not zero.
MInvert(m) ==
    LET det == Det(m)
    IN  [a  |-> FDiv(m.d, det),
         b  |-> FDiv(FNeg(m.b), det),
         c  |-> FDiv(FNeg(m.c), det),
         d  |-> FDiv(m.a, det),
         tx |-> FDiv(FSub(FMul(m.b, m.ty), FMul(m.d, m.tx)), det),
         ty |-> FDiv(FSub(FMul(m.c, m.tx), FMul(m.a, m.ty)), det)]

\* --------------------------------------------------------------- Transform
\* One statement after another: x is computed once, then Body uses its value.
Bind(x, Body(_)) == CHOOSE y \in {Body(v) : v \in {x}} : TRUE

\* Fault injection for C17: T() marking both caches stale.
TMarkedDirty ==
    [position |-> VInt(0, 0), scale |-> V2(F(1)), offset |-> VInt(0, 0),
     origin |-> VInt(0, 0), rotation |-> 0, parent |-> Nil,
     dirty |-> TRUE, parentDirty |-> TRUE,
     matrix |-> Identity, parentMatrix |-> Identity, parentInverted |-> Identity]

\* T(): every field but scale has its zero value; Matrix{} is the identity.
T ==
    [position |-> VInt(0, 0), scale |-> V2(F(1)), offset |-> VInt(0, 0),
     origin |-> VInt(0, 0), rotation |-> 0, parent |-> Nil,
     dirty |-> FALSE, parentDirty |-> FALSE,
     matrix |-> Identity, parentMatrix |-> Identity, parentInverted |-> Identity]

\* Fault injection for C18: the parenting matrix shifted by the origin too.
BuildParentMatrixWithOrigin(t) ==
    MTranslate(
        MTranslate(
            MRotate(
                MTranslate(MScale(Identity, t.scale.X, t.scale.Y),
                           FMul(FNeg(t.offset.X), t.scale.X),
                           FMul(FNeg(t.offset.Y), t.scale.Y)),
                t.rotation),
            t.position.X, t.position.Y),
        FNeg(t.origin.X), FNeg(t.origin.Y))

\* The matrix built from the fields of t in MatrixForParenting (lines 207-211).
BuildParentMatrix(t) ==
    MTranslate(
        MRotate(
            MTranslate(MScale(Identity, t.scale.X, t.scale.Y),
                       FMul(FNeg(t.offset.X), t.scale.X),
                       FMul(FNeg(t.offset.Y), t.scale.Y)),
            t.rotation),
        t.position.X, t.position.Y)

\* Fault injection for C9: BuildMatrix turning before the pivot shift.
BuildMatrixTurnFirst(t) ==
    Bind(MTranslate(
             MTranslate(
                 MRotate(MScale(Identity, t.scale.X, t.scale.Y), t.rotation),
                 FMul(FNeg(t.offset.X), t.scale.X),
                 FMul(FNeg(t.offset.Y), t.scale.Y)),
             t.position.X, t.position.Y),
         LAMBDA m :
             IF ~IsZero(t.origin)
             THEN MTranslate(m, FNeg(t.origin.X), FNeg(t.origin.Y))
             ELSE m)

\* The matrix built from the fields of t in Matrix (lines 232-239).
BuildMatrix(t) ==
    Bind(MTranslate(
             MRotate(
                 MTranslate(MScale(Identity, t.scale.X, t.scale.Y),
                            FMul(FNeg(t.offset.X), t.scale.X),
                            FMul(FNeg(t.offset.Y), t.scale.Y)),
                 t.rotation),
             t.position.X, t.position.Y),
         LAMBDA m :
             IF ~IsZero(t.origin)
             THEN MTranslate(m, FNeg(t.origin.X), FNeg(t.origin.Y))
             ELSE m)

\* The heap once self's parenting cache has been rebuilt, if it was stale
\* (lines 206-217).
RefreshParenting(ns, self) ==
    IF ns[self].parentDirty
    THEN Bind(BuildParentMatrix(ns[self]), LAMBDA pm :
             [ns EXCEPT ![self].parentMatrix = pm,
                        ![self].parentInverted = MInvert(pm),
                        ![self].parentDirty = FALSE])
    ELSE ns

\* Fault injection for C28: the inverse composed with the node's own inverse
\* first.
RECURSIVE MatrixForParentingInverseOrder(_, _)
MatrixForParentingInverseOrder(ns, self) ==
    Bind(RefreshParenting(ns, self), LAMBDA ns1 :
        IF ns1[self].parent # Nil
        THEN Bind(MatrixForParentingInverseOrder(ns1, ns1[self].parent), LAMBDA r :
                 [ns |-> r.ns,
                  m  |-> MConcat(ns1[self].parentMatrix, r.m),
                  mi |-> MConcat(r.ns[self].parentInverted, r.mi)])
        ELSE [ns |-> ns1, m |-> ns1[self].parentMatrix, mi |-> ns1[self].parentInverted])

\* MatrixForParenting: the heap after the call, and the two matrices returned.
RECURSIVE MatrixForParenting(_, _)
MatrixForParenting(ns, self) ==
    Bind(RefreshParenting(ns, self), LAMBDA ns1 :
        IF ns1[self].parent # Nil
        THEN Bind(MatrixForParenting(ns1, ns1[self].parent), LAMBDA r :
                 [ns |-> r.ns,
                  m  |-> MConcat(ns1[self].parentMatrix, r.m),
                  mi |-> MConcat(r.mi, r.ns[self].parentInverted)])
        ELSE [ns |-> ns1, m |-> ns1[self].parentMatrix, mi |-> ns1[self].parentInverted])

\* Fault injection for C16: the matrix cache rebuilt but left marked stale.
RefreshMatrixStaysDirty(ns, self) ==
    IF ns[self].dirty
    THEN [ns EXCEPT ![self].matrix = BuildMatrix(ns[self])]
    ELSE ns

\* The heap once self's matrix cache has been rebuilt, if it was stale
\* (lines 231-241).
RefreshMatrix(ns, self) ==
    IF ns[self].dirty
    THEN [ns EXCEPT ![self].matrix = BuildMatrix(ns[self]), ![self].dirty = FALSE]
    ELSE ns

\* Fault injection for C7: Matrix composing the parent's matrix first.
MatrixParentFirst(ns, self) ==
    Bind(RefreshMatrix(ns, self), LAMBDA ns1 :
        IF ns1[self].parent # Nil
        THEN Bind(MatrixForParenting(ns1, ns1[self].parent), LAMBDA r :
                 [ns |-> r.ns, m |-> MConcat(r.m, ns1[self].matrix)])
        ELSE [ns |-> ns1, m |-> ns1[self].matrix])

\* Matrix: the heap after the call, and the matrix returned.
Matrix(ns, self) ==
    Bind(RefreshMatrix(ns, self), LAMBDA ns1 :
        IF ns1[self].parent # Nil
        THEN Bind(MatrixForParenting(ns1, ns1[self].parent), LAMBDA r :
                 [ns |-> r.ns, m |-> MConcat(ns1[self].matrix, r.m)])
        ELSE [ns |-> ns1, m |-> ns1[self].matrix])

Origin(ns, self) == ns[self].origin

\* Fault injection for C27: SetOrigin leaving the matrix cache marked clean.
SetOriginKeepsClean(ns, self, origin) ==
    [ns EXCEPT ![self].parentDirty = TRUE, ![self].origin = origin]

SetOrigin(ns, self, origin) ==
    [ns EXCEPT ![self].dirty = TRUE, ![self].parentDirty = TRUE, ![self].origin = origin]

IsDirty(ns, self) == ns[self].dirty \/ ns[self].parentDirty

\* Fault injection for C6: Position read off the node's own world matrix.
PositionFromMatrix(ns, self) ==
    Bind(Matrix(ns, self), LAMBDA r :
        [ns |-> r.ns, v |-> Apply(VInt(0, 0), r.m)])

\* Fault injection for C8: Position mapping through the inverse matrix.
PositionThroughInverse(ns, self) ==
    IF ns[self].parent = Nil
    THEN [ns |-> ns, v |-> ns[self].position]
    ELSE Bind(MatrixForParenting(ns, ns[self].parent), LAMBDA r :
             [ns |-> r.ns, v |-> Apply(ns[self].position, r.mi)])

\* Position: the heap after the call, and the vector returned.
Position(ns, self) ==
    IF ns[self].parent = Nil
    THEN [ns |-> ns, v |-> ns[self].position]
    ELSE Bind(MatrixForParenting(ns, ns[self].parent), LAMBDA r :
             [ns |-> r.ns, v |-> Apply(ns[self].position, r.m)])

\* Fault injection for C2: SetPosition leaving the parenting cache marked clean.
SetPositionCacheKept(ns, self, position) ==
    Bind([ns EXCEPT ![self].dirty = TRUE], LAMBDA ns1 :
        IF ns1[self].parent # Nil
        THEN Bind(MatrixForParenting(ns1, ns1[self].parent), LAMBDA r :
                 [r.ns EXCEPT ![self].position = Apply(position, r.mi)])
        ELSE [ns1 EXCEPT ![self].position = position])

\* Fault injection for C4: SetPosition storing its argument under a parent too.
SetPositionStoresArgument(ns, self, position) ==
    [ns EXCEPT ![self].dirty = TRUE, ![self].parentDirty = TRUE,
               ![self].position = position]

\* Fault injection for C29: SetPosition marking the parent's caches stale too.
SetPositionMarksParent(ns, self, position) ==
    Bind([ns EXCEPT ![self].dirty = TRUE, ![self].parentDirty = TRUE], LAMBDA ns1 :
        IF ns1[self].parent # Nil
        THEN Bind(MatrixForParenting(ns1, ns1[self].parent), LAMBDA r :
                 [r.ns EXCEPT ![self].position = Apply(position, r.mi),
                              ![ns1[self].parent].dirty = TRUE,
                              ![ns1[self].parent].parentDirty = TRUE])
        ELSE [ns1 EXCEPT ![self].position = position])

SetPosition(ns, self, position) ==
    Bind([ns EXCEPT ![self].dirty = TRUE, ![self].parentDirty = TRUE], LAMBDA ns1 :
        IF ns1[self].parent # Nil
        THEN Bind(MatrixForParenting(ns1, ns1[self].parent), LAMBDA r :
                 [r.ns EXCEPT ![self].position = Apply(position, r.mi)])
        ELSE [ns1 EXCEPT ![self].position = position])

\* Fault injection for C22: Move adding to the stored position.
MoveStored(ns, self, v) ==
    [ns EXCEPT ![self].dirty = TRUE, ![self].parentDirty = TRUE,
               ![self].position = VecAdd(@, v)]

Move(ns, self, v) ==
    Bind(Position(ns, self), LAMBDA p :
        SetPosition(p.ns, self, VecAdd(p.v, v)))

RECURSIVE Rotation(_, _)
Rotation(ns, self) ==
    IF ns[self].parent = Nil
    THEN ns[self].rotation
    ELSE ns[self].rotation + Rotation(ns, ns[self].parent)

SetRotation(ns, self, rotation) ==
    Bind([ns EXCEPT ![self].dirty = TRUE, ![self].parentDirty = TRUE], LAMBDA ns1 :
        IF ns1[self].parent # Nil
        THEN [ns1 EXCEPT ![self].rotation = @ - Rotation(ns1, ns1[self].parent)]
        ELSE [ns1 EXCEPT ![self].rotation = rotation])

\* Fault injection for C24: Rotate going through the world-space setter.
RotateWorld(ns, self, rotation) ==
    SetRotation(ns, self, Rotation(ns, self) + rotation)

Rotate(ns, self, rotation) ==
    [ns EXCEPT ![self].dirty = TRUE, ![self].parentDirty = TRUE,
               ![self].rotation = @ + rotation]

SetScale(ns, self, scale) ==
    [ns EXCEPT ![self].dirty = TRUE, ![self].parentDirty = TRUE, ![self].scale = scale]

Scale(ns, self) == ns[self].scale

AddScale(ns, self, add) ==
    [ns EXCEPT ![self].dirty = TRUE, ![self].parentDirty = TRUE,
               ![self].scale = VecAdd(@, add)]

SetOffset(ns, self, offset) ==
    [ns EXCEPT ![self].dirty = TRUE, ![self].parentDirty = TRUE, ![self].offset = offset]

Offset(ns, self) == ns[self].offset

\* Fault injection for C3: Abs copying the stored position.
AbsStoredPosition(ns, self) ==
    IF ns[self].parent = Nil
    THEN [ns |-> ns, v |-> ns[self]]
    ELSE [ns |-> ns,
          v  |-> [T EXCEPT !.position = ns[self].position,
                           !.rotation = Rotation(ns, self),
                           !.origin = Origin(ns, self),
                           !.scale = Scale(ns, self),
                           !.offset = Offset(ns, self),
                           !.dirty = TRUE,
                           !.parentDirty = TRUE]]

\* Fault injection for C10: Abs returning a value that still has the parent.
AbsKeepsParent(ns, self) ==
    IF ns[self].parent = Nil
    THEN [ns |-> ns, v |-> ns[self]]
    ELSE Bind(Position(ns, self), LAMBDA p :
             [ns |-> p.ns,
              v  |-> [ns[self] EXCEPT !.position = p.v,
                                      !.rotation = Rotation(p.ns, self),
                                      !.dirty = TRUE,
                                      !.parentDirty = TRUE]])

\* Fault injection for C20: Abs copying the stored rotation.
AbsStoredRotation(ns, self) ==
    IF ns[self].parent = Nil
    THEN [ns |-> ns, v |-> ns[self]]
    ELSE Bind(Position(ns, self), LAMBDA p :
             [ns |-> p.ns,
              v  |-> [T EXCEPT !.position = p.v,
                               !.rotation = p.ns[self].rotation,
                               !.origin = Origin(p.ns, self),
                               !.scale = Scale(p.ns, self),
                               !.offset = Offset(p.ns, self),
                               !.dirty = TRUE,
                               !.parentDirty = TRUE]])

\* Abs: the heap after the call, and the Transform value returned.
Abs(ns, self) ==
    IF ns[self].parent = Nil
    THEN [ns |-> ns, v |-> ns[self]]
    ELSE Bind(Position(ns, self), LAMBDA p :
             [ns |-> p.ns,
              v  |-> [T EXCEPT !.position = p.v,
                               !.rotation = Rotation(p.ns, self),
                               !.origin = Origin(p.ns, self),
                               !.scale = Scale(p.ns, self),
                               !.offset = Offset(p.ns, self),
                               !.dirty = TRUE,
                               !.parentDirty = TRUE]])

\* Fault injection for C21: Rel returning the world pose, as Abs does.
RelWorldPose(ns, self) == Abs(ns, self).v

\* Rel: the Transform value returned.
Rel(ns, self) == [ns[self] EXCEPT !.parent = Nil]

Connected(ns, self) == ns[self].parent # Nil

\* Replace(new), new.GetTransform() being the node nt.
Replace(ns, self, nt) ==
    Bind(Position(ns, nt), LAMBDA p :
    Bind(SetPosition(p.ns, self, p.v), LAMBDA ns1 :
    Bind(SetOffset(ns1, self, Offset(ns1, nt)), LAMBDA ns2 :
    Bind(SetRotation(ns2, self, Rotation(ns2, nt)), LAMBDA ns3 :
        SetOrigin(ns3, self, Origin(ns3, nt))))))

\* Connect(parent) with a parent that is not nil.
Connect(ns, self, parent) ==
    Bind([ns EXCEPT ![self].parent = parent], LAMBDA ns0 :
    Bind(Position(ns0, self), LAMBDA p :
    Bind(SetPosition(p.ns, self, p.v), LAMBDA ns1 :
    Bind(SetRotation(ns1, self, Rotation(ns1, self)), LAMBDA ns2 :
    Bind(SetScale(ns2, self, Scale(ns2, self)), LAMBDA ns3 :
        SetOffset(ns3, self, Offset(ns3, self)))))))

Disconnect(ns, self) ==
    IF ns[self].parent = Nil
    THEN ns
    ELSE Bind(Abs(ns, self), LAMBDA r : [r.ns EXCEPT ![self] = r.v])

\* GetInitialParentTransform on a hierarchy without a cycle.
RECURSIVE GetInitialParentTransform(_, _)
GetInitialParentTransform(ns, self) ==
    IF ns[self].parent # Nil
    THEN GetInitialParentTransform(ns, ns[self].parent)
    ELSE self

\* The nodes met from n by following the parent link at most k times.
RECURSIVE Upward(_, _, _)
Upward(ns, n, k) ==
    IF n = Nil \/ k = 0 THEN {}
    ELSE {n} \cup Upward(ns, ns[n].parent, k - 1)

\* Connect(parent) when self is parent or one of its ancestors: the recursion
\* of MatrixForParenting around the cycle rebuilds each stale parenting cache
\* once and then never returns.  The heap when the stack is exhausted.
ConnectCycle(ns, self, parent) ==
    Bind([ns EXCEPT ![self].parent = parent], LAMBDA ns0 :
    Bind(Upward(ns0, parent, Cardinality(Nodes)), LAMBDA cyc :
        [n \in DOMAIN ns0 |->
            IF n \in cyc THEN RefreshParenting(ns0, n)[n] ELSE ns0[n]]))

\* ------------------------------------------------------------- the program
VARIABLES
    nodes,     \* the Transform objects: Nodes -> Transform
    before,    \* nodes as they were when the last operation was called
    snap,      \* the Transform value last returned by Abs() or Rel()
    snapSeen,  \* where snap came from and the pose read from it on return
    last,      \* the last operation: its name, receiver, argument and result
    steps,     \* operations performed since the scene was built
    halted     \* the program died in an endless recursion

vars == <<nodes, before, snap, snapSeen, last, steps, halted>>

\* The parts of the package that hold no Transform, each exercised by a
\* program of its own.
VARIABLES
    walk,      \* a call of GetInitialParentTransform: where its loop stands
    picker,    \* a RandPicker[int]
    added,     \* the (value, weight) pairs given to AddOption since the last Reset
    picked,    \* the last RandPicker operation and what it returned
    vec        \* a Vector, the method last called on it and what it returned

others == <<walk, picker, added, picked, vec>>
allvars == <<nodes, before, snap, snapSeen, last, steps, halted,
             walk, picker, added, picked, vec>>

\* No call of GetInitialParentTransform under way, the picker as
\* RandomPicker made it, and the zero Vector.
NoWalk == [pc |-> "idle", start |-> Nil, self |-> Nil, ret |-> Nil]
NoPicker == [keys |-> <<>>, values |-> <<>>, threshold |-> F(0), sorted |-> FALSE]
NoPick == [op |-> "RandomPicker", ret |-> Nil]
NoVec == [self |-> VInt(0, 0), op |-> "V", ret |-> Nil]

OthersIdle ==
    /\ walk = NoWalk
    /\ picker = NoPicker
    /\ added = {}
    /\ picked = NoPick
    /\ vec = NoVec

\* The heap as the holder of the snapshot sees it.
Heap(ns, s) == [i \in Nodes \cup {SnapId} |-> IF i \in Nodes THEN ns[i] ELSE s]

\* What the five pose getters of a node return.
Pose(ns, n) ==
    [position |-> Position(ns, n).v, rotation |-> Rotation(ns, n),
     scale |-> Scale(ns, n), offset |-> Offset(ns, n), origin |-> Origin(ns, n)]

\* Arguments the program passes.
PositionArgs == {VInt(5, 0), VInt(1, 1)}
RotationArgs == {1}
ScaleArgs == {VInt(2, 2)}
OffsetArgs == {VInt(1, 0)}
OriginArgs == {VInt(0, 1)}
MoveArgs == {<<>>, <<VInt(1, 1), VInt(5, 0)>>}
AddScaleArgs == {<<VInt(1, 1)>>}

\* Scenes the program builds before the modelled operations begin.
Fresh == [n \in Nodes |-> T]

\* A at (10,0); B with local position (5,0) under A; C with position (1,1) under B.
SceneChain ==
    Bind(SetPosition(Fresh, 1, VInt(10, 0)), LAMBDA s1 :
    Bind(SetPosition(s1, 2, VInt(5, 0)), LAMBDA s2 :
    Bind(Connect(s2, 2, 1), LAMBDA s3 :
    Bind(SetPosition(s3, 3, VInt(1, 1)), LAMBDA s4 :
        Connect(s4, 3, 2)))))

\* A chain whose nodes are scaled, turned and shifted, not yet read.
ScenePosed ==
    Bind(SetPosition(Fresh, 1, VInt(1, 1)), LAMBDA a1 :
    Bind(SetRotation(a1, 1, 1), LAMBDA a2 :
    Bind(SetScale(a2, 1, VInt(2, 2)), LAMBDA a3 :
    Bind(SetOffset(a3, 1, VInt(1, 0)), LAMBDA a4 :
    Bind(SetOrigin(a4, 1, VInt(0, 1)), LAMBDA a5 :
    Bind(SetPosition(a5, 2, VInt(5, 0)), LAMBDA b1 :
    Bind(SetRotation(b1, 2, 1), LAMBDA b2 :
    Bind(SetScale(b2, 2, VInt(1, 2)), LAMBDA b3 :
    Bind(SetOrigin(b3, 2, VInt(0, 1)), LAMBDA b4 :
    Bind(SetPosition(b4, 3, VInt(1, 1)), LAMBDA c1 :
    Bind(SetRotation(c1, 3, 2), LAMBDA c2 :
    Bind(Connect(c2, 2, 1), LAMBDA c3 :
        Connect(c3, 3, 2)))))))))))))

\* The same chain after every node's matrices have been read once.
SceneWarm ==
    Bind(Matrix(ScenePosed, 3).ns, LAMBDA w1 :
    Bind(Matrix(w1, 2).ns, LAMBDA w2 :
    Bind(Matrix(w2, 1).ns, LAMBDA w3 :
        MatrixForParenting(w3, 3).ns)))

Scenes == {Fresh, SceneChain, SceneWarm}

Init ==
    /\ nodes \in Scenes
    /\ before = nodes
    /\ snap = T
    /\ snapSeen = [by |-> "T", of |-> Nil, pose |-> Pose(Heap(nodes, T), SnapId)]
    /\ last = [op |-> "T", self |-> Nil, arg |-> Nil, ret |-> Nil]
    /\ steps = 0
    /\ halted = FALSE
    /\ OthersIdle

Running == ~halted /\ steps < MaxSteps

\* The bookkeeping every completed operation shares.
Done(op, self, arg, ns, ret) ==
    /\ nodes' = ns
    /\ before' = nodes
    /\ last' = [op |-> op, self |-> self, arg |-> arg, ret |-> ret]
    /\ steps' = steps + 1
    /\ halted' = FALSE
    /\ UNCHANGED others

DoSetPosition ==
    /\ Running
    /\ \E n \in Nodes, v \in PositionArgs :
          Done("SetPosition", n, v, SetPosition(nodes, n, v), Nil)
    /\ UNCHANGED <<snap, snapSeen>>

DoSetRotation ==
    /\ Running
    /\ \E n \in Nodes, r \in RotationArgs :
          Done("SetRotation", n, r, SetRotation(nodes, n, r), Nil)
    /\ UNCHANGED <<snap, snapSeen>>

DoSetScale ==
    /\ Running
    /\ \E n \in Nodes, v \in ScaleArgs :
          Done("SetScale", n, v, SetScale(nodes, n, v), Nil)
    /\ UNCHANGED <<snap, snapSeen>>

DoSetOffset ==
    /\ Running
    /\ \E n \in Nodes, v \in OffsetArgs :
          Done("SetOffset", n, v, SetOffset(nodes, n, v), Nil)
    /\ UNCHANGED <<snap, snapSeen>>

DoSetOrigin ==
    /\ Running
    /\ \E n \in Nodes, v \in OriginArgs :
          Done("SetOrigin", n, v, SetOrigin(nodes, n, v), Nil)
    /\ UNCHANGED <<snap, snapSeen>>

DoMove ==
    /\ Running
    /\ \E n \in Nodes, vs \in MoveArgs :
          Done("Move", n, vs, Move(nodes, n, vs), Nil)
    /\ UNCHANGED <<snap, snapSeen>>

DoRotate ==
    /\ Running
    /\ \E n \in Nodes, r \in RotationArgs :
          Done("Rotate", n, r, Rotate(nodes, n, r), Nil)
    /\ UNCHANGED <<snap, snapSeen>>

DoAddScale ==
    /\ Running
    /\ \E n \in Nodes, vs \in AddScaleArgs :
          Done("AddScale", n, vs, AddScale(nodes, n, vs), Nil)
    /\ UNCHANGED <<snap, snapSeen>>

DoPosition ==
    /\ Running
    /\ \E n \in Nodes :
          \E r \in {Position(nodes, n)} : Done("Position", n, Nil, r.ns, r.v)
    /\ UNCHANGED <<snap, snapSeen>>

DoMatrix ==
    /\ Running
    /\ \E n \in Nodes :
          \E r \in {Matrix(nodes, n)} : Done("Matrix", n, Nil, r.ns, r.m)
    /\ UNCHANGED <<snap, snapSeen>>

DoMatrixForParenting ==
    /\ Running
    /\ \E n \in Nodes :
          \E r \in {MatrixForParenting(nodes, n)} :
              Done("MatrixForParenting", n, Nil, r.ns, <<r.m, r.mi>>)
    /\ UNCHANGED <<snap, snapSeen>>

DoAbs ==
    /\ Running
    /\ \E n \in Nodes :
          \E r \in {Abs(nodes, n)} :
              /\ Done("Abs", n, Nil, r.ns, r.v)
              /\ snap' = r.v
              /\ snapSeen' = [by |-> "Abs", of |-> n,
                               pose |-> Pose(Heap(r.ns, r.v), SnapId)]

DoRel ==
    /\ Running
    /\ \E n \in Nodes :
          \E v \in {Rel(nodes, n)} :
              /\ Done("Rel", n, Nil, nodes, v)
              /\ snap' = v
              /\ snapSeen' = [by |-> "Rel", of |-> n,
                               pose |-> Pose(Heap(nodes, v), SnapId)]

DoReplace ==
    /\ Running
    /\ \E n \in Nodes : \E o \in Nodes \ {n} :
          Done("Replace", n, o, Replace(nodes, n, o), Nil)
    /\ UNCHANGED <<snap, snapSeen>>

\* Fault injection for C14: Connect(nil) taken as a request to drop the parent.
DoConnectNilDetaches ==
    /\ Running
    /\ \E n \in Nodes, p \in Nodes \cup {Nil} :
          IF p = Nil
          THEN Done("Connect", n, Nil, [nodes EXCEPT ![n].parent = Nil], Nil)
          ELSE IF n \in Upward(nodes, p, Cardinality(Nodes))
          THEN /\ nodes' = ConnectCycle(nodes, n, p)
               /\ before' = nodes
               /\ last' = [op |-> "Connect", self |-> n, arg |-> p, ret |-> Nil]
               /\ steps' = steps + 1
               /\ halted' = TRUE
               /\ UNCHANGED others
          ELSE Done("Connect", n, p, Connect(nodes, n, p), Nil)
    /\ UNCHANGED <<snap, snapSeen>>

\* Connect(parent): nil returns at once; a parent that closes a cycle never returns.
DoConnect ==
    /\ Running
    /\ \E n \in Nodes, p \in Nodes \cup {Nil} :
          IF p = Nil
          THEN Done("Connect", n, Nil, nodes, Nil)
          ELSE IF n \in Upward(nodes, p, Cardinality(Nodes))
          THEN /\ nodes' = ConnectCycle(nodes, n, p)
               /\ before' = nodes
               /\ last' = [op |-> "Connect", self |-> n, arg |-> p, ret |-> Nil]
               /\ steps' = steps + 1
               /\ halted' = TRUE
               /\ UNCHANGED others
          ELSE Done("Connect", n, p, Connect(nodes, n, p), Nil)
    /\ UNCHANGED <<snap, snapSeen>>

DoDisconnect ==
    /\ Running
    /\ \E n \in Nodes :
          Done("Disconnect", n, Nil, Disconnect(nodes, n), Nil)
    /\ UNCHANGED <<snap, snapSeen>>

Next ==
    \/ DoSetPosition
    \/ DoSetRotation
    \/ DoSetScale
    \/ DoSetOffset
    \/ DoSetOrigin
    \/ DoMove
    \/ DoRotate
    \/ DoAddScale
    \/ DoPosition
    \/ DoMatrix
    \/ DoMatrixForParenting
    \/ DoAbs
    \/ DoRel
    \/ DoReplace
    \/ DoConnect
    \/ DoDisconnect

Spec == Init /\ [][Next]_vars

\* ------------------------------------------------- values built from scratch
\* The parenting matrix of n computed from the position, rotation, scale and
\* offset fields of n and of its ancestors, no cache read.
RECURSIVE ParentingFromFields(_, _)
ParentingFromFields(ns, n) ==
    IF ns[n].parent = Nil
    THEN BuildParentMatrix(ns[n])
    ELSE MConcat(BuildParentMatrix(ns[n]), ParentingFromFields(ns, ns[n].parent))

\* The world matrix of n computed from the fields alone.
MatrixFromFields(ns, n) ==
    IF ns[n].parent = Nil
    THEN BuildMatrix(ns[n])
    ELSE MConcat(BuildMatrix(ns[n]), ParentingFromFields(ns, ns[n].parent))

\* The world position of n computed from the fields alone.
PositionFromFields(ns, n) ==
    IF ns[n].parent = Nil
    THEN ns[n].position
    ELSE Apply(ns[n].position, ParentingFromFields(ns, ns[n].parent))

\* The ancestors of n.
Ancestors(ns, n) == Upward(ns, ns[n].parent, Cardinality(Nodes))

\* The number of nodes on the way from n to its root, n included.
Depth(ns, n) == Cardinality(Upward(ns, n, Cardinality(Nodes)))

Setters ==
    {"SetPosition", "SetRotation", "SetScale", "SetOffset", "SetOrigin",
     "Move", "Rotate", "AddScale"}

\* The vector v turned by k quarter turns.
Turn(v, k) ==
    V(FSub(FMul(Cos(k), v.X), FMul(Sin(k), v.Y)),
      FAdd(FMul(Sin(k), v.X), FMul(Cos(k), v.Y)))

VSub(v, w) == V(FSub(v.X, w.X), FSub(v.Y, w.Y))
VMul(v, w) == V(FMul(v.X, w.X), FMul(v.Y, w.Y))

\* ------------------------------------------------------------------ claims

\* C1 (as claimed): after t.Connect(parent) with a parent that is not nil,
\* t.Position(), t.Rotation() and t.Scale() return what they returned before
\* the call.
C1_ConnectKeepsWorldPose ==
    (last.op = "Connect" /\ last.arg # Nil /\ ~halted) =>
        /\ Position(nodes, last.self).v = Position(before, last.self).v
        /\ Rotation(nodes, last.self) = Rotation(before, last.self)
        /\ Scale(nodes, last.self) = Scale(before, last.self)

\* C2: in every state, for every node, the next Matrix() and the next
\* Position() return the values computed from scratch from the current fields
\* of the node and of its ancestors, whatever the caches hold.
C2_NoStaleCache ==
    ~halted =>
        \A n \in Nodes :
            /\ Matrix(nodes, n).m = MatrixFromFields(nodes, n)
            /\ Position(nodes, n).v = PositionFromFields(nodes, n)

\* C2 witness: a setter has just changed the pose of the root of a chain of
\* three, after the caches of its grandchild were built, and the grandchild's
\* world matrix is no longer the one it had.
C2_Witness ==
    /\ ~halted
    /\ last.op \in Setters
    /\ \E d \in Nodes :
          /\ Depth(nodes, d) = 3
          /\ last.self = GetInitialParentTransform(nodes, d)
          /\ \A a \in Upward(before, d, 3) : ~IsDirty(before, a)
          /\ MatrixFromFields(nodes, d) # MatrixFromFields(before, d)
          /\ PositionFromFields(nodes, d) # PositionFromFields(before, d)

\* C3: after Disconnect() on a connected node the node has no parent and its
\* five pose getters return what they returned before the call; on a node
\* without a parent Disconnect() changes nothing at all.
C3_DisconnectKeepsWorldPose ==
    (last.op = "Disconnect" /\ ~halted) =>
        IF before[last.self].parent = Nil
        THEN nodes = before
        ELSE /\ ~Connected(nodes, last.self)
             /\ Pose(nodes, last.self) = Pose(before, last.self)

\* C3 witness: Disconnect() has acted on a grandchild whose world position
\* differed from its stored position.
C3_Witness ==
    /\ last.op = "Disconnect"
    /\ ~halted
    /\ Depth(before, last.self) = 3
    /\ Position(before, last.self).v # before[last.self].position
    /\ Rotation(before, last.self) # before[last.self].rotation

\* C4: right after SetPosition(w), Position() returns w, and for a connected
\* node the stored position is the one the parent's accumulated parenting
\* matrix maps to w.
C4_SetPositionIsWorld ==
    (last.op = "SetPosition" /\ ~halted) =>
        /\ Position(nodes, last.self).v = last.arg
        /\ PositionFromFields(nodes, last.self) = last.arg

\* C4 witness: SetPosition has acted on a grandchild and stored a position
\* other than its argument.
C4_Witness ==
    /\ last.op = "SetPosition"
    /\ ~halted
    /\ Depth(nodes, last.self) = 3
    /\ nodes[last.self].position # last.arg

\* C5 (as claimed): right after SetRotation(w) the stored rotation is w minus
\* the parent's world rotation (w for a root), and Rotation() returns w.
C5_SetRotationIsWorld ==
    (last.op = "SetRotation" /\ ~halted) =>
        /\ nodes[last.self].rotation =
              IF nodes[last.self].parent = Nil
              THEN last.arg
              ELSE last.arg - Rotation(nodes, nodes[last.self].parent)
        /\ Rotation(nodes, last.self) = last.arg

\* C6: for a node without a parent, Position(), Rotation() and Scale() return
\* the stored position, rotation and scale, and a setter of such a node
\* stores its argument.
C6_RootIdentity ==
    ~halted =>
        \A n \in Nodes :
            nodes[n].parent = Nil =>
                /\ Position(nodes, n).v = nodes[n].position
                /\ Rotation(nodes, n) = nodes[n].rotation
                /\ Scale(nodes, n) = nodes[n].scale
                /\ (last.self = n /\ last.op = "SetPosition") => nodes[n].position = last.arg
                /\ (last.self = n /\ last.op = "SetRotation") => nodes[n].rotation = last.arg
                /\ (last.self = n /\ last.op = "SetScale") => nodes[n].scale = last.arg

\* C6 witness: a setter has acted on a root whose position, rotation and scale
\* all differ from those of T().
C6_Witness ==
    /\ ~halted
    /\ last.op \in Setters
    /\ nodes[last.self].parent = Nil
    /\ nodes[last.self].position # T.position
    /\ nodes[last.self].rotation # T.rotation
    /\ nodes[last.self].scale # T.scale

\* C7 (as claimed): for every node, whatever its offset and origin,
\* Position() is Matrix() applied to the point (0,0).
C7_PositionIsMatrixOfZero ==
    ~halted =>
        \A n \in Nodes :
            Position(nodes, n).v = Apply(VInt(0, 0), Matrix(nodes, n).m)

\* C7 (amended): for every node whose own offset and origin are (0,0), at any
\* depth and for every scale and rotation, Position() is Matrix() applied to
\* the point (0,0).
C7_PositionIsMatrixOfZeroNoPivot ==
    ~halted =>
        \A n \in Nodes :
            (IsZero(nodes[n].offset) /\ IsZero(nodes[n].origin)) =>
                Position(nodes, n).v = Apply(VInt(0, 0), Matrix(nodes, n).m)

\* C7 witness: a grandchild without offset and origin, itself scaled, under a
\* turned and scaled parent, away from the world origin.
C7_Witness ==
    /\ ~halted
    /\ \E n \in Nodes :
          /\ Depth(nodes, n) = 3
          /\ IsZero(nodes[n].offset) /\ IsZero(nodes[n].origin)
          /\ nodes[n].scale # T.scale
          /\ Rotation(nodes, nodes[n].parent) % 4 # 0
          /\ nodes[nodes[n].parent].scale # T.scale
          /\ Position(nodes, n).v # nodes[n].position

\* A is a root at (10,0) with rotation rot, unit scale and no offset, and B is
\* connected to A with stored position (5,0).
SceneAB(ns, rot) ==
    /\ ns[1].parent = Nil
    /\ ns[1].position = VInt(10, 0)
    /\ ns[1].rotation = rot
    /\ ns[1].scale = VInt(1, 1)
    /\ ns[1].offset = VInt(0, 0)
    /\ ns[2].parent = 1
    /\ ns[2].position = VInt(5, 0)

\* C8: a connected node's Position() is its stored position mapped by the
\* parent's accumulated parenting matrix; with A at (10,0) unrotated and B
\* under A at local (5,0), B.Position() is (15,0), and once A's rotation is a
\* quarter turn it is (10,5).
C8_ChildFollowsParent ==
    ~halted =>
        /\ \A n \in Nodes :
              Connected(nodes, n) =>
                  Position(nodes, n).v =
                      Apply(nodes[n].position, ParentingFromFields(nodes, nodes[n].parent))
        /\ SceneAB(nodes, 0) => Position(nodes, 2).v = VInt(15, 0)
        /\ SceneAB(nodes, 1) => Position(nodes, 2).v = VInt(10, 5)

\* C8 witness: A.SetRotation(quarter turn) has acted on the scene in which
\* B.Position() was (15,0).
C8_Witness ==
    /\ ~halted
    /\ last.op = "SetRotation" /\ last.self = 1 /\ last.arg = 1
    /\ SceneAB(before, 0)
    /\ Position(before, 2).v = VInt(15, 0)
    /\ SceneAB(nodes, 1)

\* Points the matrices are applied to.
Probes == {VInt(0, 0), VInt(1, 0), VInt(0, 1)}

\* C9: for a root, Matrix() maps q to
\* turn(rotation, q*scale - offset*scale) + position - origin; with scale
\* (2,2), position (1,1) and the rest as T() made it, Matrix() maps (1,0) to
\* (3,1).
C9_MatrixOrder ==
    ~halted =>
        \A n \in Nodes :
            nodes[n].parent = Nil =>
                \A m \in {Matrix(nodes, n).m} :
                    /\ \A q \in Probes :
                          Apply(q, m) =
                              VSub(VecAdd(Turn(VSub(VMul(q, nodes[n].scale),
                                                    VMul(nodes[n].offset, nodes[n].scale)),
                                               nodes[n].rotation),
                                          <<nodes[n].position>>),
                                   nodes[n].origin)
                    /\ ( /\ nodes[n].scale = VInt(2, 2)
                         /\ nodes[n].position = VInt(1, 1)
                         /\ nodes[n].rotation = 0
                         /\ IsZero(nodes[n].offset)
                         /\ IsZero(nodes[n].origin) ) =>
                          Apply(VInt(1, 0), m) = VInt(3, 1)

\* C9 witness: a root that T() made has had SetScale((2,2)) and then
\* SetPosition((1,1)).
C9_Witness ==
    /\ ~halted
    /\ last.op = "SetPosition" /\ last.arg = VInt(1, 1)
    /\ nodes[last.self] = [T EXCEPT !.scale = VInt(2, 2), !.position = VInt(1, 1),
                                    !.dirty = TRUE, !.parentDirty = TRUE]
    /\ before[last.self] = [T EXCEPT !.scale = VInt(2, 2),
                                      !.dirty = TRUE, !.parentDirty = TRUE]

\* C10: the Transform value returned by Abs() keeps reporting the pose read
\* from it on return, whatever is done afterwards to the node it came from or
\* to that node's ancestors.
C10_AbsSnapshotIndependent ==
    (snapSeen.by = "Abs" /\ ~halted) =>
        Pose(Heap(nodes, snap), SnapId) = snapSeen.pose

\* C10 witness: after Abs() of a connected node, a setter has acted on that
\* node's parent and the node's own world position has changed.
C10_Witness ==
    /\ ~halted
    /\ snapSeen.by = "Abs"
    /\ last.op \in Setters
    /\ before[snapSeen.of].parent = last.self
    /\ nodes[snapSeen.of].parent = last.self
    /\ Position(nodes, snapSeen.of).v # Position(before, snapSeen.of).v
    /\ Position(before, snapSeen.of).v = snapSeen.pose.position

\* The stored fields and the parent link of a Transform value.
Fields(t) ==
    [position |-> t.position, rotation |-> t.rotation, scale |-> t.scale,
     offset |-> t.offset, origin |-> t.origin, parent |-> t.parent]

\* C11 (as claimed): right after t.Connect(parent) with a parent that is not
\* nil, t.Disconnect() leaves t without a parent and t.Position(),
\* t.Rotation() and t.Scale() as they were before the Connect.
C11_DisconnectUndoesConnect ==
    (last.op = "Connect" /\ last.arg # Nil /\ ~halted) =>
        \A ns2 \in {Disconnect(nodes, last.self)} :
            /\ ~Connected(ns2, last.self)
            /\ Position(ns2, last.self).v = Position(before, last.self).v
            /\ Rotation(ns2, last.self) = Rotation(before, last.self)
            /\ Scale(ns2, last.self) = Scale(before, last.self)

\* C12 (as claimed): t.Connect(p2) on a node connected to another parent
\* leaves t as t.Disconnect() followed by t.Connect(p2) would, and
\* t.Position() and t.Rotation() as they were before the call.
C12_ReconnectKeepsWorldPose ==
    ( /\ last.op = "Connect" /\ last.arg # Nil /\ ~halted
      /\ before[last.self].parent \notin {Nil, last.arg} ) =>
        /\ Fields(nodes[last.self]) =
              Fields(Connect(Disconnect(before, last.self), last.self, last.arg)[last.self])
        /\ Position(nodes, last.self).v = Position(before, last.self).v
        /\ Rotation(nodes, last.self) = Rotation(before, last.self)

\* C13 (as claimed): after self.Replace(other), self.Position(),
\* self.Rotation(), self.Offset() and self.Origin() return what other's
\* return, and self's parent is the one it had.
C13_ReplaceTeleports ==
    (last.op = "Replace" /\ ~halted) =>
        /\ Position(nodes, last.self).v = Position(nodes, last.arg).v
        /\ Rotation(nodes, last.self) = Rotation(nodes, last.arg)
        /\ Offset(nodes, last.self) = Offset(nodes, last.arg)
        /\ Origin(nodes, last.self) = Origin(nodes, last.arg)
        /\ nodes[last.self].parent = before[last.self].parent

C15_DirtyBelowChangedAncestor ==
    (last.op \in Setters /\ ~halted) =>
        \A d \in Nodes :
            ( /\ last.self \in Ancestors(nodes, d)
              /\ ~IsDirty(before, d)
              /\ Fields(nodes[last.self]) # Fields(before[last.self]) ) =>
                IsDirty(nodes, d)

\* What marks a node's caches stale: the setters, and Replace, Connect with a
\* parent and Disconnect of a connected node, which write the node too.
Writers == Setters \cup {"Replace", "Connect", "Disconnect"}

\* C16 (as claimed): a setter leaves the node with IsDirty() true, Matrix() or
\* Position() on the node leaves it with IsDirty() false, and IsDirty() stays
\* false until the next setter.
C16_ReadCleans ==
    ~halted =>
        /\ last.op \in Setters => IsDirty(nodes, last.self)
        /\ last.op \in {"Matrix", "Position"} => ~IsDirty(nodes, last.self)
        /\ \A n \in Nodes :
              (~IsDirty(before, n) /\ IsDirty(nodes, n)) =>
                  (last.self = n /\ last.op \in Setters)

\* C16 (amended): a setter leaves the node with IsDirty() true; Matrix()
\* clears the node's dirty flag only and MatrixForParenting() its parentDirty
\* flag only, Position() clears neither, so IsDirty() is false once both
\* Matrix() and MatrixForParenting() have run; it then stays false until the
\* next setter, Replace, Connect with a parent or Disconnect on the node.
C16_TwoReadsClean ==
    ~halted =>
        /\ last.op \in Setters => IsDirty(nodes, last.self)
        /\ last.op = "Matrix" =>
              /\ ~nodes[last.self].dirty
              /\ nodes[last.self].parentDirty = before[last.self].parentDirty
        /\ last.op = "MatrixForParenting" =>
              /\ ~nodes[last.self].parentDirty
              /\ nodes[last.self].dirty = before[last.self].dirty
        /\ last.op = "Position" =>
              /\ nodes[last.self].dirty = before[last.self].dirty
              /\ nodes[last.self].parentDirty = before[last.self].parentDirty
        /\ \A n \in Nodes :
              (~IsDirty(before, n) /\ IsDirty(nodes, n)) =>
                  (last.self = n /\ last.op \in Writers)

\* C16 witness: MatrixForParenting() has acted on a connected node that a
\* setter had left dirty and whose Matrix() had been read since, and the node
\* is clean.
C16_Witness ==
    /\ ~halted
    /\ last.op = "MatrixForParenting"
    /\ Connected(nodes, last.self)
    /\ before[last.self].parentDirty
    /\ ~before[last.self].dirty
    /\ ~IsDirty(nodes, last.self)
    /\ nodes[last.self].matrix = BuildMatrix(nodes[last.self])
    /\ nodes[last.self].matrix # T.matrix

\* The pose T() is to give: no parent, position, offset and origin (0,0),
\* rotation 0, scale (1,1).
IdentityPose ==
    [position |-> VInt(0, 0), rotation |-> 0, scale |-> VInt(1, 1),
     offset |-> VInt(0, 0), origin |-> VInt(0, 0), parent |-> Nil]

\* C17 (as claimed): the value T() returned, untouched since, has no parent,
\* position, offset and origin (0,0), rotation 0, scale (1,1), and its
\* IsDirty() is true.
C17_ConstructorDirty ==
    snapSeen.by = "T" =>
        /\ Fields(snap) = IdentityPose
        /\ IsDirty(Heap(nodes, snap), SnapId)

\* C17 (amended): the value T() returned, untouched since, has no parent,
\* position, offset and origin (0,0), rotation 0, scale (1,1); its IsDirty()
\* is false, and the matrices it holds are the ones its fields give, so
\* Matrix() and MatrixForParenting() return the identity.
C17_ConstructorClean ==
    snapSeen.by = "T" =>
        \A h \in {Heap(nodes, snap)} :
            /\ Fields(snap) = IdentityPose
            /\ ~IsDirty(h, SnapId)
            /\ Matrix(h, SnapId).m = MatrixFromFields(h, SnapId)
            /\ MatrixForParenting(h, SnapId).m = ParentingFromFields(h, SnapId)
            /\ Matrix(h, SnapId).m = Identity

\* C17 witness: among nodes that are all as T() made them, Matrix() has been
\* called on one before any setter and returned the identity.
C17_Witness ==
    /\ snapSeen.by = "T"
    /\ before = Fresh
    /\ nodes = Fresh
    /\ last.op = "Matrix"
    /\ last.ret = Identity

\* The nodes below n.
Descendants(ns, n) == {d \in Nodes : n \in Ancestors(ns, d)}

\* C18: SetOrigin on a node leaves Position() and Matrix() of each of its
\* descendants as they were, and leaves the two matrices its
\* MatrixForParenting() returns as they were.
C18_OriginNotInherited ==
    (last.op = "SetOrigin" /\ ~halted) =>
        /\ \A d \in Descendants(nodes, last.self) :
              /\ Position(nodes, d).v = Position(before, d).v
              /\ Matrix(nodes, d).m = Matrix(before, d).m
        /\ MatrixForParenting(nodes, last.self).m =
              MatrixForParenting(before, last.self).m
        /\ MatrixForParenting(nodes, last.self).mi =
              MatrixForParenting(before, last.self).mi

\* C18 witness: SetOrigin has changed the origin, and with it the Matrix(), of
\* a turned and scaled node that has a child and a grandchild.
C18_Witness ==
    /\ last.op = "SetOrigin"
    /\ ~halted
    /\ Cardinality(Descendants(nodes, last.self)) = 2
    /\ nodes[last.self].origin # before[last.self].origin
    /\ Matrix(nodes, last.self).m # Matrix(before, last.self).m
    /\ nodes[last.self].rotation # 0
    /\ nodes[last.self].scale # T.scale

\* The world scale of n: the component-wise product of the stored scales of n
\* and of its ancestors.
RECURSIVE WorldScale(_, _)
WorldScale(ns, n) ==
    IF ns[n].parent = Nil
    THEN ns[n].scale
    ELSE VMul(ns[n].scale, WorldScale(ns, ns[n].parent))

\* C19 (as claimed): for a connected node Scale() returns the component-wise
\* product of the node's stored scale and its parent's world scale.
C19_ScaleIsWorld ==
    ~halted =>
        \A n \in Nodes :
            Connected(nodes, n) =>
                Scale(nodes, n) = VMul(nodes[n].scale, WorldScale(nodes, nodes[n].parent))

\* C20: the value t.Abs() returns has no parent and holds, as its stored
\* position, rotation, scale, offset and origin, what t.Position(),
\* t.Rotation(), t.Scale(), t.Offset() and t.Origin() returned when Abs() was
\* called; t's stored pose and parent link are as before the call.
C20_AbsCarriesGetters ==
    (last.op = "Abs" /\ ~halted) =>
        /\ last.ret.parent = Nil
        /\ last.ret.position = Position(before, last.self).v
        /\ last.ret.rotation = Rotation(before, last.self)
        /\ last.ret.scale = Scale(before, last.self)
        /\ last.ret.offset = Offset(before, last.self)
        /\ last.ret.origin = Origin(before, last.self)
        /\ Fields(nodes[last.self]) = Fields(before[last.self])

\* C20 witness: Abs() has acted on a grandchild with an offset, whose
\* Position() and Rotation() were not its stored position and rotation.
C20_Witness ==
    /\ last.op = "Abs"
    /\ ~halted
    /\ Depth(before, last.self) = 3
    /\ last.ret.position # before[last.self].position
    /\ last.ret.rotation # before[last.self].rotation
    /\ ~IsZero(before[last.self].offset)

\* C21: the value t.Rel() returns has no parent and the stored position,
\* rotation, scale, offset and origin of t; the call leaves t, its parent link
\* included, and every other node as they were.
C21_RelKeepsLocal ==
    (last.op = "Rel" /\ ~halted) =>
        /\ Fields(last.ret) = [Fields(before[last.self]) EXCEPT !.parent = Nil]
        /\ nodes = before

\* C21 witness: Rel() has acted on a grandchild whose Position() and
\* Rotation() were not its stored position and rotation.
C21_Witness ==
    /\ last.op = "Rel"
    /\ ~halted
    /\ Depth(nodes, last.self) = 3
    /\ Position(before, last.self).v # last.ret.position
    /\ Rotation(before, last.self) # last.ret.rotation

\* C22: after Move(v1..vn), Position() returns what it returned before the
\* call plus v1 + ... + vn (unchanged for the empty list), and the stored
\* rotation, scale, offset and origin and the parent link are as before.
C22_MoveAddsInWorld ==
    (last.op = "Move" /\ ~halted) =>
        /\ Position(nodes, last.self).v = VecAdd(Position(before, last.self).v, last.arg)
        /\ [Fields(nodes[last.self]) EXCEPT !.position = T.position] =
              [Fields(before[last.self]) EXCEPT !.position = T.position]

\* C22 witness: Move with two vectors has acted on a grandchild under a
\* turned parent, and its stored position changed by another amount than
\* their sum.
C22_Witness ==
    /\ last.op = "Move"
    /\ ~halted
    /\ Len(last.arg) = 2
    /\ Depth(nodes, last.self) = 3
    /\ Rotation(nodes, nodes[last.self].parent) % 4 # 0
    /\ nodes[last.self].position # VecAdd(before[last.self].position, last.arg)

\* C24: Rotate(d) adds d to the stored rotation and AddScale(v1..vn) adds
\* v1 + ... + vn to the stored scale, with or without a parent; the other
\* stored fields, the parent link and every other node, caches included, are
\* as before.
C24_LocalIncrements ==
    ~halted =>
        /\ last.op = "Rotate" =>
              /\ Fields(nodes[last.self]) =
                    [Fields(before[last.self]) EXCEPT !.rotation = @ + last.arg]
              /\ \A o \in Nodes \ {last.self} : nodes[o] = before[o]
        /\ last.op = "AddScale" =>
              /\ Fields(nodes[last.self]) =
                    [Fields(before[last.self]) EXCEPT !.scale = VecAdd(@, last.arg)]
              /\ \A o \in Nodes \ {last.self} : nodes[o] = before[o]

\* C24 witness: Rotate has acted on a turned node under a turned parent whose
\* parenting cache was stale.
C24_Witness ==
    /\ ~halted
    /\ last.op = "Rotate"
    /\ Connected(nodes, last.self)
    /\ before[last.self].rotation # 0
    /\ Rotation(nodes, nodes[last.self].parent) % 4 # 0
    /\ nodes[nodes[last.self].parent].parentDirty

\* The operations that only read.
Reads == {"Position", "Matrix", "MatrixForParenting", "Abs", "Rel"}

\* C29: an operation on a node n leaves the stored position, rotation, scale,
\* offset, origin and parent link of every other node as they were and sets
\* no dirty flag of another node, n's ancestors included; a read leaves n's
\* own stored pose and parent link as they were too.
C29_OthersUntouched ==
    (last.self # Nil /\ ~halted) =>
        /\ \A o \in Nodes \ {last.self} :
              /\ Fields(nodes[o]) = Fields(before[o])
              /\ nodes[o].dirty => before[o].dirty
              /\ nodes[o].parentDirty => before[o].parentDirty
        /\ last.op \in Reads => Fields(nodes[last.self]) = Fields(before[last.self])

\* C29 witness: SetPosition has moved a grandchild one of whose ancestors had
\* a stale parenting cache, which the call rebuilt.
C29_Witness ==
    /\ ~halted
    /\ last.op = "SetPosition"
    /\ Depth(nodes, last.self) = 3
    /\ nodes[last.self].position # before[last.self].position
    /\ \E a \in Ancestors(nodes, last.self) :
          before[a].parentDirty /\ ~nodes[a].parentDirty

\* C27: in every state, a Transform whose dirty flag is false holds as its
\* matrix the one built from its current fields, and a Transform whose
\* parentDirty flag is false holds as its parentMatrix the one built from its
\* current fields without the origin and as its parentInverted the inverse of
\* that matrix; this for every node and for the value last returned by T(),
\* Abs() or Rel().
C27_CacheCoherence ==
    ~halted =>
        \A t \in {nodes[n] : n \in Nodes} \cup {snap} :
            /\ ~t.dirty => t.matrix = BuildMatrix(t)
            /\ ~t.parentDirty =>
                  /\ t.parentMatrix = BuildParentMatrix(t)
                  /\ MConcat(t.parentMatrix, t.parentInverted) = Identity
                  /\ MConcat(t.parentInverted, t.parentMatrix) = Identity

\* C27 witness: Matrix() has rebuilt the stale matrix of a node with an
\* origin, whose parenting cache is still out of date and still marked so.
C27_Witness ==
    /\ ~halted
    /\ last.op = "Matrix"
    /\ before[last.self].dirty
    /\ ~nodes[last.self].dirty
    /\ nodes[last.self].matrix # before[last.self].matrix
    /\ ~IsZero(nodes[last.self].origin)
    /\ nodes[last.self].parentDirty
    /\ nodes[last.self].parentMatrix # BuildParentMatrix(nodes[last.self])

\* The inverse of n's accumulated parenting matrix from the fields alone: the
\* root's inverse applied first, n's own inverse last.
RECURSIVE InverseFromFields(_, _)
InverseFromFields(ns, n) ==
    IF ns[n].parent = Nil
    THEN MInvert(BuildParentMatrix(ns[n]))
    ELSE MConcat(InverseFromFields(ns, ns[n].parent), MInvert(BuildParentMatrix(ns[n])))

\* C28: the pair (m, mi) MatrixForParenting() returns, at any depth, is such
\* that mi undoes m and m undoes mi on every point; m is the node's parenting
\* matrix followed by each ancestor's up to the root, and mi the inverses
\* from the root's down to the node's own.
C28_ParentingInversePair ==
    (last.op = "MatrixForParenting" /\ ~halted) =>
        \A m \in {last.ret[1]} : \A mi \in {last.ret[2]} :
            /\ \A q \in Probes :
                  /\ Apply(Apply(q, m), mi) = q
                  /\ Apply(Apply(q, mi), m) = q
            /\ MConcat(m, mi) = Identity
            /\ MConcat(mi, m) = Identity
            /\ m = ParentingFromFields(nodes, last.self)
            /\ mi = InverseFromFields(nodes, last.self)

\* C28 witness: MatrixForParenting() has acted on a grandchild under turned
\* and scaled ancestors, where the order of the inverses matters.
C28_Witness ==
    /\ last.op = "MatrixForParenting"
    /\ ~halted
    /\ Depth(nodes, last.self) = 3
    /\ \A a \in Ancestors(nodes, last.self) :
          nodes[a].rotation % 4 # 0 /\ nodes[a].scale # T.scale
    /\ last.ret[2] # MConcat(MInvert(BuildParentMatrix(nodes[last.self])),
                             InverseFromFields(nodes, nodes[last.self].parent))

\* ------------------------------------------- GetInitialParentTransform
\* The Transform variables at rest while another part of the package runs.
TransformIdle ==
    /\ before = nodes
    /\ snap = T
    /\ snapSeen = [by |-> "T", of |-> Nil, pose |-> Pose(Heap(nodes, T), SnapId)]
    /\ last = [op |-> "T", self |-> Nil, arg |-> Nil, ret |-> Nil]
    /\ steps = 0
    /\ halted = FALSE

\* Every way the parent links of the nodes can stand.
Links == [Nodes -> Nodes \cup {Nil}]

\* n has a node without a parent above it, or is one.
HasRoot(ns, n) == \E r \in Upward(ns, n, Cardinality(Nodes)) : ns[r].parent = Nil

\* n is its own ancestor.
OwnAncestor(ns, n) == n \in Ancestors(ns, n)

Acyclic(ns) == \A n \in Nodes : HasRoot(ns, n)

\* The hierarchy with the links l: built by Connect, child after parent, when
\* l has no cycle; a Connect that closes a cycle never returns, so a
\* hierarchy with a cycle is the parent fields written as they stand.
RECURSIVE ConnectAll(_, _, _)
ConnectAll(ns, l, todo) ==
    IF todo = {} THEN ns
    ELSE Bind(CHOOSE n \in todo : l[n] \notin todo, LAMBDA n :
             ConnectAll(IF l[n] = Nil THEN ns ELSE Connect(ns, n, l[n]), l, todo \ {n}))

Hierarchy(l) ==
    Bind([n \in Nodes |-> [T EXCEPT !.parent = l[n]]], LAMBDA linked :
        IF Acyclic(linked) THEN ConnectAll(Fresh, l, Nodes) ELSE linked)

WalkInit ==
    /\ nodes \in {Hierarchy(l) : l \in Links}
    /\ TransformIdle
    /\ walk = NoWalk
    /\ picker = NoPicker
    /\ added = {}
    /\ picked = NoPick
    /\ vec = NoVec

\* A call of GetInitialParentTransform on a node: the loop is entered.
DoGetInitialParentTransform ==
    /\ walk.pc # "loop"
    /\ \E n \in Nodes :
          walk' = [pc |-> "loop", start |-> n, self |-> n, ret |-> Nil]
    /\ UNCHANGED <<vars, picker, added, picked, vec>>

\* Fault injection for C23: the loop going up one link at most.
StepOneLinkOnly ==
    /\ walk.pc = "loop"
    /\ walk' = IF nodes[walk.self].parent # Nil /\ walk.self = walk.start
               THEN [walk EXCEPT !.self = nodes[walk.self].parent]
               ELSE [walk EXCEPT !.pc = "returned", !.ret = walk.self]
    /\ UNCHANGED <<vars, picker, added, picked, vec>>

\* One test of the loop condition: self.parent != nil moves self up,
\* otherwise self is returned.
StepGetInitialParentTransform ==
    /\ walk.pc = "loop"
    /\ walk' = IF nodes[walk.self].parent # Nil
               THEN [walk EXCEPT !.self = nodes[walk.self].parent]
               ELSE [walk EXCEPT !.pc = "returned", !.ret = walk.self]
    /\ UNCHANGED <<vars, picker, added, picked, vec>>

WalkNext ==
    \/ DoGetInitialParentTransform
    \/ StepGetInitialParentTransform

\* A loop that is running takes its next step.
SpecWalk ==
    WalkInit /\ [][WalkNext]_allvars /\ WF_allvars(StepGetInitialParentTransform)

\* C23: on a hierarchy without a cycle a call of GetInitialParentTransform
\* returns, and what it returns is the one node without a parent among the
\* node and its ancestors (the node itself when it has no parent); a call on
\* a node that is its own ancestor never returns: its loop condition holds at
\* every test.
C23_WalkReachesRoot ==
    /\ [](walk.pc = "returned" =>
            /\ HasRoot(nodes, walk.start)
            /\ walk.ret \in Upward(nodes, walk.start, Cardinality(Nodes))
            /\ nodes[walk.ret].parent = Nil
            /\ \A r \in Upward(nodes, walk.start, Cardinality(Nodes)) :
                  nodes[r].parent = Nil => r = walk.ret
            /\ nodes[walk.start].parent = Nil => walk.ret = walk.start)
    /\ []((walk.pc # "idle" /\ OwnAncestor(nodes, walk.start)) =>
            /\ walk.pc = "loop"
            /\ nodes[walk.self].parent # Nil)
    /\ ((walk.pc = "loop" /\ Acyclic(nodes)) ~> walk.pc = "returned")

\* C23 witness: a call on the grandchild of a chain that Connect built has
\* returned the chain's root.
C23_Witness ==
    /\ walk.pc = "returned"
    /\ Depth(nodes, walk.start) = 3
    /\ walk.ret # walk.start
    /\ walk.ret # nodes[walk.start].parent
    /\ nodes[walk.start].dirty

\* ----------------------------------------------------------- RandPicker
\* The most options a picker is given.
MaxOptions == 3

\* The values offered; the zero value of their type is no option.
Values == {1, 2, 3}
ZeroValue == 0

\* The weights given to AddOption: none, and the smaller one of the README's
\* example; AddOptions gives the weight 1.
Weights == {F(0), Frac(3, 10)}

\* What rng.Float64 returns, in quarters; FloatRange(0, max) rounds
\* 0 + f*max to a float64 and so can reach max itself.
Rolls == {Frac(k, 4) : k \in 0..4}

\* x <= y and x < y on float64.
FLeq(x, y) == x[1] * y[2] <= y[1] * x[2]
FLess(x, y) == x[1] * y[2] < y[1] * x[2]

\* Rand.FloatRange
FloatRange(f, min, max) == FAdd(min, FMul(f, FSub(max, min)))

\* RandPicker.Reset
Reset(p) == [p EXCEPT !.keys = <<>>, !.values = <<>>, !.threshold = F(0), !.sorted = FALSE]

\* Fault injection for C25: AddOption without its test of the weight.
AddOptionAnyWeight(p, value, weight) ==
    Bind(FAdd(p.threshold, weight), LAMBDA th :
        [p EXCEPT !.threshold = th,
                  !.keys = Append(@, [threshold |-> th, index |-> Len(p.values)]),
                  !.values = Append(@, value),
                  !.sorted = FALSE])

\* RandPicker.AddOption
AddOption(p, value, weight) ==
    IF weight = F(0) THEN p
    ELSE Bind(FAdd(p.threshold, weight), LAMBDA th :
             [p EXCEPT !.threshold = th,
                       !.keys = Append(@, [threshold |-> th, index |-> Len(p.values)]),
                       !.values = Append(@, value),
                       !.sorted = FALSE])

\* RandPicker.AddOptions
RECURSIVE AddOptions(_, _)
AddOptions(p, values) ==
    IF values = <<>> THEN p
    ELSE AddOptions(AddOption(p, Head(values), F(1)), Tail(values))

\* RandPicker.IsEmpty
IsEmpty(p) == Len(p.values) # 0

\* sort.Sort of the keys, by randPickerKeySlice.Less: k put into the sorted
\* keys before the first one it is less than.
RECURSIVE InsertKey(_, _)
InsertKey(keys, k) ==
    IF keys = <<>> THEN <<k>>
    ELSE IF FLess(k.threshold, Head(keys).threshold) THEN <<k>> \o keys
    ELSE <<Head(keys)>> \o InsertKey(Tail(keys), k)

RECURSIVE SortKeys(_)
SortKeys(keys) ==
    IF keys = <<>> THEN keys
    ELSE InsertKey(SortKeys(SubSeq(keys, 1, Len(keys) - 1)), keys[Len(keys)])

\* sort.Search over the indices i..j-1 of the keys (counted from 0) for the
\* first with roll <= threshold, by halving.
RECURSIVE Search(_, _, _, _)
Search(keys, roll, i, j) ==
    IF i >= j THEN i
    ELSE Bind((i + j) \div 2, LAMBDA h :
             IF ~FLeq(roll, keys[h + 1].threshold)
             THEN Search(keys, roll, h + 1, j)
             ELSE Search(keys, roll, i, h))

\* RandPicker.Pick with rng.Float64 returning f: the picker afterwards and
\* the value returned.
Pick(p, f) ==
    IF Len(p.values) = 0 THEN [p |-> p, ret |-> ZeroValue]
    ELSE IF Len(p.values) = 1 THEN [p |-> p, ret |-> p.values[1]]
    ELSE Bind([p EXCEPT !.keys = IF p.sorted THEN @ ELSE SortKeys(@), !.sorted = TRUE],
              LAMBDA q :
         Bind(FloatRange(f, F(0), q.threshold), LAMBDA roll :
         Bind(Search(q.keys, roll, 0, Len(q.keys)), LAMBDA i :
             [p |-> q,
              ret |-> IF i < Len(q.keys) /\ FLeq(roll, q.keys[i + 1].threshold)
                      THEN q.values[q.keys[i + 1].index + 1]
                      ELSE q.values[Len(q.values)]])))

PickerInit ==
    /\ nodes = Fresh
    /\ TransformIdle
    /\ walk = NoWalk
    /\ picker = NoPicker
    /\ added = {}
    /\ picked = NoPick
    /\ vec = NoVec

DoReset ==
    /\ picker' = Reset(picker)
    /\ added' = {}
    /\ picked' = [op |-> "Reset", ret |-> Nil]
    /\ UNCHANGED <<vars, walk, vec>>

DoAddOption ==
    /\ Len(picker.values) < MaxOptions
    /\ \E value \in Values, weight \in Weights :
          /\ picker' = AddOption(picker, value, weight)
          /\ added' = added \cup {<<value, weight>>}
    /\ picked' = [op |-> "AddOption", ret |-> Nil]
    /\ UNCHANGED <<vars, walk, vec>>

DoAddOptions ==
    /\ \E values \in {<<>>} \cup {<<v>> : v \in Values} \cup {<<v, w>> : v, w \in Values} :
          /\ Len(picker.values) + Len(values) <= MaxOptions
          /\ picker' = AddOptions(picker, values)
          /\ added' = added \cup {<<values[i], F(1)>> : i \in 1..Len(values)}
    /\ picked' = [op |-> "AddOptions", ret |-> Nil]
    /\ UNCHANGED <<vars, walk, vec>>

DoIsEmpty ==
    /\ picked' = [op |-> "IsEmpty", ret |-> IsEmpty(picker)]
    /\ UNCHANGED <<vars, walk, vec, picker, added>>

DoPick ==
    /\ \E f \in Rolls : \E r \in {Pick(picker, f)} :
          /\ picker' = r.p
          /\ picked' = [op |-> "Pick", ret |-> r.ret]
    /\ UNCHANGED <<vars, walk, vec, added>>

PickerNext ==
    \/ DoReset
    \/ DoAddOption
    \/ DoAddOptions
    \/ DoIsEmpty
    \/ DoPick

SpecPicker == PickerInit /\ [][PickerNext]_allvars

\* The values added since the last Reset with a weight that is not zero.
Offered == {o[1] : o \in {a \in added : a[2] # F(0)}}

\* C25: whatever the roll, Pick on a picker holding an option returns a value
\* that was added since the last Reset with a non-zero weight, so a value
\* added with weight 0 only is never returned; on a picker holding no option
\* it returns the zero value. The picker holds the options of non-zero
\* weight, in the order they were added.
C25_PickReturnsOffered ==
    /\ {picker.values[i] : i \in 1..Len(picker.values)} = Offered
    /\ Len(picker.keys) = Len(picker.values)
    /\ picked.op = "Pick" =>
          IF picker.values = <<>>
          THEN picked.ret = ZeroValue /\ Offered = {}
          ELSE picked.ret \in Offered

\* C25 witness: Pick on three options, with another value added at weight 0
\* only, has returned the last option.
C25_Witness ==
    /\ picked.op = "Pick"
    /\ Len(picker.values) = 3
    /\ picker.sorted
    /\ picked.ret = picker.values[3]
    /\ picked.ret # picker.values[1]
    /\ \E a \in added : a[2] = F(0) /\ a[1] \notin Offered

\* C30: IsEmpty returns true exactly when the picker holds no option: when
\* nothing of non-zero weight was added since it was made or Reset.
C30_IsEmptyReportsEmptiness ==
    picked.op = "IsEmpty" =>
        /\ picked.ret = TRUE <=> Len(picker.values) = 0
        /\ picked.ret = TRUE <=> Offered = {}

\* ------------------------------------------------------ Vector.Normalized
\* The largest coordinate of the vectors normalized.
MaxCoord == 8

\* n is the square of a whole number.
IsSquare(n) == \E k \in 0..n : k * k = n

\* math.Sqrt, on the float64s that are squares of fractions.
Sqrt(x) ==
    <<CHOOSE k \in 0..x[1] : k * k = x[1], CHOOSE k \in 1..x[2] : k * k = x[2]>>

\* Vector.Dot
Dot(self, v2) == FAdd(FMul(self.X, v2.X), FMul(self.Y, v2.Y))

\* Vector.LengthSquared
LengthSquared(self) == Dot(self, self)

\* Vector.Length
Length(self) == Sqrt(LengthSquared(self))

\* Vector.MulF
MulF(self, scalar) == V(FMul(self.X, scalar), FMul(self.Y, scalar))

\* Fault injection for C26: the vector divided by its squared length.
NormalizedBySquare(self) ==
    Bind(LengthSquared(self), LAMBDA l :
        IF l # F(0) THEN MulF(self, FDiv(F(1), l)) ELSE self)

\* Vector.Normalized
Normalized(self) ==
    Bind(LengthSquared(self), LAMBDA l :
        IF l # F(0) THEN MulF(self, FDiv(F(1), Sqrt(l))) ELSE self)

\* The vectors with whole coordinates whose length is a whole number, the
\* zero vector among them.
Vectors ==
    {VInt(x, y) : <<x, y>> \in {c \in (-MaxCoord..MaxCoord) \X (-MaxCoord..MaxCoord) :
                                   IsSquare(c[1] * c[1] + c[2] * c[2])}}

VectorInit ==
    /\ nodes = Fresh
    /\ TransformIdle
    /\ walk = NoWalk
    /\ picker = NoPicker
    /\ added = {}
    /\ picked = NoPick
    /\ vec = NoVec

\* VInt(x, y)
DoVInt ==
    /\ \E v \in Vectors : vec' = [self |-> v, op |-> "V", ret |-> Nil]
    /\ UNCHANGED <<vars, walk, picker, added, picked>>

DoNormalized ==
    /\ vec' = [vec EXCEPT !.op = "Normalized", !.ret = Normalized(vec.self)]
    /\ UNCHANGED <<vars, walk, picker, added, picked>>

DoLength ==
    /\ vec' = [vec EXCEPT !.op = "Length", !.ret = Length(vec.self)]
    /\ UNCHANGED <<vars, walk, picker, added, picked>>

VectorNext ==
    \/ DoVInt
    \/ DoNormalized
    \/ DoLength

SpecVector == VectorInit /\ [][VectorNext]_allvars

SpecTransform == Init /\ [][Next]_vars

====
